---- MODULE Spec2Model ----
(***************************************************************************)
(* Model of UsagePatternAnalyzer (src/usage_pattern_analyzer.py), of the   *)
(* threshold map it reads (src/ai_config.py), and of the calls of          *)
(* AISuggestionEngine (src/ai_suggestion_engine.py) and                    *)
(* RecommendationEngine (src/recommendation_engine.py) that read the map.  *)
(*                                                                         *)
(* Python values are represented as follows.                               *)
(*   str used as event type     a sequence of one-character strings, so    *)
(*                              that startswith, replace and f-string      *)
(*                              concatenation are computed, not assumed    *)
(*   str used as id / label     a TLA+ string (only compared for equality) *)
(*   dict (insertion ordered)   a sequence of records [key, val]           *)
(*   list, list of tuples       a sequence                                 *)
(*   a raised exception         result.raised names it                     *)
(***************************************************************************)
EXTENDS Integers, Sequences, FiniteSets, TLC

VARIABLES
    events,          \* self.events
    user_sessions,   \* self.user_sessions  (defaultdict(list))
    feature_usage,   \* self.feature_usage  (defaultdict(int))
    error_patterns,  \* self.error_patterns (defaultdict(list))
    now,             \* the wall clock read by datetime.now(), in hours
    result,          \* the last call: its name, arguments, exception, return value
    file,            \* the file export_analysis writes: whether it exists, its text
    pending,         \* the track_event call in progress: its event and next step
    suggestions,     \* AISuggestionEngine: self.suggestions
    usage_patterns,  \* AISuggestionEngine: self.usage_patterns
    user_profiles    \* RecommendationEngine: self.user_profiles

\* The state of the two downstream engines.
downstream == <<suggestions, usage_patterns, user_profiles>>

vars ==
    <<events, user_sessions, feature_usage, error_patterns, now, result, file, pending,
      downstream>>

log == <<events, user_sessions, feature_usage, error_patterns>>

(***************************************************************************)
(* Bounds of the model.                                                    *)
(***************************************************************************)
\* Largest number of track_event / track_error calls in a run of Spec, SpecClock
\* and SpecJourney.
MaxCalls == 3

\* Largest clock value, in hours, in a run of SpecClock.
MaxNow == 1

\* Largest number of track_error calls, and of distinct users, in a run of
\* SpecSeverity: both go past the largest thresholds of _assess_error_severity.
MaxBurst == 52

MaxBurstUsers == 12

\* Largest number of track_error calls in a run of SpecFrequency.
MaxFrequencyBurst == 10

\* Largest clock value, in hours, in a run of SpecFrequency and SpecTime: one day
\* and one hour.
MaxTime == 25

\* Largest number of users in a run of SpecAdoption.
MaxAdoptionUsers == 10

\* Largest number of repeated uses of a feature by the first user in a run of
\* SpecAdoption: with the user's first use, more than 100.
MaxRepeats == 100

\* Largest number of track_event and track_error calls in a run of SpecTime.
MaxTimeCalls == 4

\* Largest number of track_event and track_error calls in a run of SpecExport.
MaxExportCalls == 3

\* Largest number of track_event calls begun in a run of SpecInterleaved.
MaxInterleavedCalls == 3

\* SpecDownstream: the largest number of events tracked, the number of
\* suggestions from which analyze_usage_patterns is called no more, and the
\* largest number of update_feature_usage calls on a profile.
MaxDownstreamEvents == 2

MaxSuggestions == 2

MaxFeatureUpdates == 2

(***************************************************************************)
(* Python built-ins.                                                       *)
(***************************************************************************)
\* str.startswith(prefix)
StartsWith(s, prefix) ==
    /\ Len(s) >= Len(prefix)
    /\ SubSeq(s, 1, Len(prefix)) = prefix

\* str.replace(old, new): every non-overlapping occurrence, scanning from the left.
RECURSIVE StrReplace(_, _, _)
StrReplace(s, old, new) ==
    IF Len(s) < Len(old) THEN s
    ELSE IF StartsWith(s, old)
         THEN new \o StrReplace(SubSeq(s, Len(old) + 1, Len(s)), old, new)
         ELSE <<Head(s)>> \o StrReplace(Tail(s), old, new)

KeySet(d) == {d[i].key : i \in 1..Len(d)}

\* d[k] for a key that is present.
DictGet(d, k) == d[CHOOSE i \in 1..Len(d) : d[i].key = k].val

\* d[k] = v: an existing key keeps its position, a new key goes last.
DictSet(d, k, v) ==
    IF k \in KeySet(d)
    THEN [i \in 1..Len(d) |-> IF d[i].key = k THEN [key |-> k, val |-> v] ELSE d[i]]
    ELSE Append(d, [key |-> k, val |-> v])

\* defaultdict.__getitem__: the default when the key is missing.
DefaultGet(d, k, default) == IF k \in KeySet(d) THEN DictGet(d, k) ELSE default

\* The total length of the lists a dict holds.
RECURSIVE SumLen(_)
SumLen(d) == IF d = <<>> THEN 0 ELSE Len(Head(d).val) + SumLen(Tail(d))

\* The total of the counts a dict holds.
RECURSIVE SumVal(_)
SumVal(d) == IF d = <<>> THEN 0 ELSE Head(d).val + SumVal(Tail(d))

\* `x or {}` for an optional dict argument: None and the empty dict give {}.
OrEmptyDict(m) == IF m.isNone \/ m.map = <<>> THEN <<>> ELSE m.map

\* datetime.isoformat(): the text carries the date and the time of day.
isoformat(t) == [date |-> t \div 24, hour |-> t % 24]

\* datetime.fromisoformat()
fromisoformat(s) == s.date * 24 + s.hour

(***************************************************************************)
(* Inputs.                                                                 *)
(***************************************************************************)
\* "feature_"
FEATURE_PREFIX == <<"f", "e", "a", "t", "u", "r", "e", "_">>

\* " -> "
ARROW == <<" ", "-", ">", " ">>

TypeA == <<"a">>

\* "a -> a"
TypeAArrowA == <<"a">> \o ARROW \o <<"a">>

\* "feature_x"
TypeFeatureX == FEATURE_PREFIX \o <<"x">>

\* "feature_y"
TypeFeatureY == FEATURE_PREFIX \o <<"y">>

\* "feature_feature_x"
TypeFeatureFeatureX == FEATURE_PREFIX \o FEATURE_PREFIX \o <<"x">>

\* "feature_feafeature_ture_x"
TypeFeatureSplit == FEATURE_PREFIX \o <<"f", "e", "a">> \o FEATURE_PREFIX \o <<"t", "u", "r", "e", "_", "x">>

\* Spec: a plain type and three feature types, two of them with "feature_" in
\* the suffix.
EventTypes == {TypeA, TypeFeatureX, TypeFeatureFeatureX, TypeFeatureSplit}

ErrorTypes == {"timeout", "validation_error"}

UserIds == {"u1", "u2", "u3"}

\* SpecIngest: calls of which some carry the empty user id.
IngestEventTypes == {TypeA, TypeFeatureX}

IngestUserIds == {"", "u1"}

\* SpecClock: the clock moves between the calls.
ClockEventTypes == {TypeA, TypeFeatureX}

ClockUserIds == {"u1", "u2"}

ClockSteps == {0, 1}

\* SpecFrequency and SpecTime: the clock stays, or moves by half a day, or by half
\* a day and an hour, before a call.
TimeSteps == {0, 12, 13}

\* SpecJourney: types of which one contains the separator of the pattern key.
JourneyEventTypes == {TypeA, TypeAArrowA, TypeFeatureX}

JourneyUserIds == {"u1", "u2"}

\* SpecAdoption: two features and a plain type.
AdoptionEventTypes == {TypeFeatureX, TypeFeatureY, TypeA}

\* SpecSeverity and SpecAdoption: the i-th distinct user.
BurstUser(i) == "b" \o ToString(i)

\* An optional dict argument: left out (None), or given.
NoMap == [isNone |-> TRUE, map |-> <<>>]

Maps == {NoMap, [isNone |-> FALSE, map |-> <<>>]}

NoValue == [none |-> TRUE]

\* No track_event call is in progress.
Idle == [pc |-> "idle", event |-> NoValue]

(***************************************************************************)
(* __init__                                                                *)
(***************************************************************************)
Init ==
    /\ events = <<>>
    /\ user_sessions = <<>>
    /\ feature_usage = <<>>
    /\ error_patterns = <<>>
    /\ now = 0
    /\ result = [op |-> "__init__", raised |-> "none", value |-> NoValue]
    /\ file = [exists |-> FALSE, text |-> <<>>]
    /\ pending = Idle
    /\ suggestions = <<>>
    /\ usage_patterns = <<>>
    /\ user_profiles = <<>>

(***************************************************************************)
(* track_event                                                             *)
(***************************************************************************)
\* A variant of the append below that puts the new event first.
EventsAppend_AtFront(evs, event) == <<event>> \o evs

\* self.events.append(event)
EventsAppend(evs, event) == Append(evs, event)

\* A variant of the append below that assigns: self.user_sessions[user_id] =
\* [event].
SessionsAppend_Assign(us, user_id, event) == DictSet(us, user_id, <<event>>)

\* self.user_sessions[user_id].append(event)
SessionsAppend(us, user_id, event) ==
    DictSet(us, user_id, Append(DefaultGet(us, user_id, <<>>), event))

\* feature_name = event_type.replace("feature_", "")
FeatureName(event_type) == StrReplace(event_type, FEATURE_PREFIX, <<>>)

\* A variant of the increment below that assigns: self.feature_usage[feature_name]
\* = 1.
FeatureIncrement_Assign(fu, feature_name) == DictSet(fu, feature_name, 1)

\* self.feature_usage[feature_name] += 1
FeatureIncrement(fu, feature_name) ==
    DictSet(fu, feature_name, DefaultGet(fu, feature_name, 0) + 1)

FeatureUsageAfter(fu, event_type) ==
    IF StartsWith(event_type, FEATURE_PREFIX)
    THEN FeatureIncrement(fu, FeatureName(event_type))
    ELSE fu

track_event(event_type, user_id, metadata) ==
    LET event == [type |-> event_type,
                  user_id |-> user_id,
                  timestamp |-> isoformat(now),
                  metadata |-> OrEmptyDict(metadata)]
    IN /\ events' = EventsAppend(events, event)
       /\ user_sessions' = SessionsAppend(user_sessions, user_id, event)
       /\ feature_usage' = FeatureUsageAfter(feature_usage, event_type)
       /\ UNCHANGED <<error_patterns, file, pending, downstream>>
       /\ result' = [op |-> "track_event", raised |-> "none", value |-> NoValue,
                     user_id |-> user_id]

(***************************************************************************)
(* track_event, statement by statement: another thread may run between the *)
(* three statements that change the log. The event is built, and the clock *)
(* read, before the first of them.                                         *)
(***************************************************************************)
\* self.events.append(event)
track_event_events(event_type, user_id, metadata) ==
    LET event == [type |-> event_type,
                  user_id |-> user_id,
                  timestamp |-> isoformat(now),
                  metadata |-> OrEmptyDict(metadata)]
    IN /\ pending = Idle
       /\ events' = EventsAppend(events, event)
       /\ pending' = [pc |-> "user_sessions", event |-> event]
       /\ UNCHANGED <<user_sessions, feature_usage, error_patterns, now, result, file,
                       downstream>>

\* self.user_sessions[user_id].append(event)
track_event_user_sessions ==
    /\ pending.pc = "user_sessions"
    /\ user_sessions' = SessionsAppend(user_sessions, pending.event.user_id, pending.event)
    /\ pending' = [pending EXCEPT !.pc = "feature_usage"]
    /\ UNCHANGED <<events, feature_usage, error_patterns, now, result, file, downstream>>

\* if event_type.startswith("feature_"): ... self.feature_usage[feature_name] += 1,
\* and the return.
track_event_feature_usage ==
    /\ pending.pc = "feature_usage"
    /\ feature_usage' = FeatureUsageAfter(feature_usage, pending.event.type)
    /\ result' = [op |-> "track_event", raised |-> "none", value |-> NoValue,
                  user_id |-> pending.event.user_id]
    /\ pending' = Idle
    /\ UNCHANGED <<events, user_sessions, error_patterns, now, file, downstream>>

(***************************************************************************)
(* track_error                                                             *)
(***************************************************************************)
\* self.error_patterns[error_type].append(error)
ErrorsAppend(ep, error_type, error) ==
    DictSet(ep, error_type, Append(DefaultGet(ep, error_type, <<>>), error))

track_error(error_type, user_id, context) ==
    LET error == [user_id |-> user_id,
                  timestamp |-> isoformat(now),
                  context |-> OrEmptyDict(context)]
    IN /\ error_patterns' = ErrorsAppend(error_patterns, error_type, error)
       /\ UNCHANGED <<events, user_sessions, feature_usage, file, pending, downstream>>
       /\ result' = [op |-> "track_error", raised |-> "none", value |-> NoValue,
                     user_id |-> user_id]

(***************************************************************************)
(* Exceptions and return values: every analyzer yields [raised, value].    *)
(***************************************************************************)
Return(v) == [raised |-> "none", value |-> v]

Raise(e) == [raised |-> e, value |-> NoValue]

\* a / b on numbers: ZeroDivisionError when b = 0, else the exact quotient num/den.
Divide(a, b) == [num |-> a, den |-> b]

(***************************************************************************)
(* ai_config.SUGGESTION_THRESHOLDS: the keys the map defines. The rates    *)
(* 0.05, 0.02, 0.3 and 0.7 are written in percent.                         *)
(***************************************************************************)
SUGGESTION_THRESHOLDS ==
    [feature_usage_high |-> 100,
     feature_usage_low |-> 10,
     error_rate_critical |-> 5,
     error_rate_warning |-> 2,
     response_time_critical |-> 2000,
     response_time_warning |-> 1000,
     adoption_rate_low |-> 30,
     adoption_rate_high |-> 70]

(***************************************************************************)
(* analyze_feature_adoption                                                *)
(***************************************************************************)
\* rate >= 0.7, rate >= 0.3 on an exact quotient
RateAtLeastTenths(rate, tenths) == 10 * rate.num >= tenths * rate.den

RateBelowTenths(rate, tenths) == 10 * rate.num < tenths * rate.den

RateAboveTenths(rate, tenths) == 10 * rate.num > tenths * rate.den

\* A variant of the status below with strict comparisons.
_get_adoption_status_Strict(rate) ==
    IF RateAboveTenths(rate, 7) THEN "high_adoption"
    ELSE IF RateAboveTenths(rate, 3) THEN "moderate_adoption"
    ELSE "low_adoption"

_get_adoption_status(rate) ==
    IF RateAtLeastTenths(rate, 7) THEN "high_adoption"
    ELSE IF RateAtLeastTenths(rate, 3) THEN "moderate_adoption"
    ELSE "low_adoption"

\* [f for f, data in d.items() if ...]: the keys at the places in keep, in dict
\* order.
KeysWhere(d, keep) ==
    LET Upto[i \in 0..Len(d)] ==
            IF i = 0 THEN <<>>
            ELSE IF i \in keep THEN Append(Upto[i - 1], d[i].key) ELSE Upto[i - 1]
    IN Upto[Len(d)]

\* A variant of the insights below whose high-value test is rate >= 0.7 and
\* total_uses >= 100.
_generate_adoption_insights_AtLeast(adoption_rates) ==
    LET low_adoption_features ==
            KeysWhere(adoption_rates,
                      {i \in 1..Len(adoption_rates) :
                          RateBelowTenths(adoption_rates[i].val.adoption_rate, 3)})
        high_value_features ==
            KeysWhere(adoption_rates,
                      {i \in 1..Len(adoption_rates) :
                          /\ RateAtLeastTenths(adoption_rates[i].val.adoption_rate, 7)
                          /\ adoption_rates[i].val.total_uses >= 100})
    IN (IF low_adoption_features # <<>>
        THEN <<[kind |-> "low_adoption", names |-> low_adoption_features]>>
        ELSE <<>>)
       \o
       (IF high_value_features # <<>>
        THEN <<[kind |-> "high_value", names |-> high_value_features]>>
        ELSE <<>>)

_generate_adoption_insights(adoption_rates) ==
    LET low_adoption_features ==
            KeysWhere(adoption_rates,
                      {i \in 1..Len(adoption_rates) :
                          RateBelowTenths(adoption_rates[i].val.adoption_rate, 3)})
        high_value_features ==
            KeysWhere(adoption_rates,
                      {i \in 1..Len(adoption_rates) :
                          /\ RateAboveTenths(adoption_rates[i].val.adoption_rate, 7)
                          /\ adoption_rates[i].val.total_uses > 100})
    IN (IF low_adoption_features # <<>>
        THEN <<[kind |-> "low_adoption", names |-> low_adoption_features]>>
        ELSE <<>>)
       \o
       (IF high_value_features # <<>>
        THEN <<[kind |-> "high_value", names |-> high_value_features]>>
        ELSE <<>>)

\* total_users = len(self.user_sessions)
TotalUsers(us) == Len(us)

\* The set built by the two nested loops: the users having an event of type
\* f"feature_{feature}".
UsersUsingFeature(us, feature) ==
    {us[i].key : i \in {k \in 1..Len(us) :
        \E j \in 1..Len(us[k].val) : us[k].val[j].type = FEATURE_PREFIX \o feature}}

\* A variant of the count below in which users_using_feature is a list, so that a
\* user is counted once per event.
UniqueUsers_PerEvent(us, feature) ==
    Cardinality({<<k, j>> \in (1..Len(us)) \X (1..SumLen(us)) :
        /\ j <= Len(us[k].val)
        /\ us[k].val[j].type = FEATURE_PREFIX \o feature})

\* len(users_using_feature)
UniqueUsers(us, feature) == Cardinality(UsersUsingFeature(us, feature))

AdoptionRecord(us, feature, count) ==
    LET adoption_rate == Divide(UniqueUsers(us, feature), TotalUsers(us))
    IN [total_uses |-> count,
        unique_users |-> UniqueUsers(us, feature),
        adoption_rate |-> adoption_rate,
        status |-> _get_adoption_status(adoption_rate)]

analyze_feature_adoption(us, fu) ==
    IF TotalUsers(us) = 0
    THEN Return([error |-> "No usage data available"])
    ELSE LET adoption_rates ==
                 [i \in 1..Len(fu) |->
                     [key |-> fu[i].key, val |-> AdoptionRecord(us, fu[i].key, fu[i].val)]]
         IN Return([total_features |-> Len(adoption_rates),
                    features |-> adoption_rates,
                    insights |-> _generate_adoption_insights(adoption_rates)])

(***************************************************************************)
(* analyze_user_journeys                                                   *)
(***************************************************************************)
\* f"{a} -> {b}"
PatternKey(a, b) == a \o ARROW \o b

\* The keys built by the inner loop over one user's events; no key when the
\* user has fewer than 2 events.
SessionPatterns(session) ==
    IF Len(session) < 2 THEN <<>>
    ELSE [i \in 1..(Len(session) - 1) |-> PatternKey(session[i].type, session[i + 1].type)]

\* The keys in the order the two loops build them.
RECURSIVE AllPatterns(_)
AllPatterns(us) ==
    IF us = <<>> THEN <<>>
    ELSE SessionPatterns(Head(us).val) \o AllPatterns(Tail(us))

\* journey_patterns[pattern] += 1 for every key of the sequence
RECURSIVE CountInto(_, _)
CountInto(d, keys) ==
    IF keys = <<>> THEN d
    ELSE CountInto(DictSet(d, Head(keys), DefaultGet(d, Head(keys), 0) + 1), Tail(keys))

JourneyPatterns(us) == CountInto(<<>>, AllPatterns(us))

\* One step of a stable sort by descending count: x goes after every entry whose
\* count is at least its own.
RECURSIVE InsertDescending(_, _)
InsertDescending(sorted, x) ==
    IF sorted = <<>> THEN <<x>>
    ELSE IF Head(sorted).val >= x.val
         THEN <<Head(sorted)>> \o InsertDescending(Tail(sorted), x)
         ELSE <<x>> \o sorted

\* sorted(items, key=lambda x: x[1], reverse=True)
RECURSIVE SortedByCountDescending(_, _)
SortedByCountDescending(done, items) ==
    IF items = <<>> THEN done
    ELSE SortedByCountDescending(InsertDescending(done, Head(items)), Tail(items))

\* sorted_patterns[:10]
TopN == 10

FirstN(s, n) == SubSeq(s, 1, IF Len(s) < n THEN Len(s) ELSE n)

RECURSIVE FilterAbove(_, _)
FilterAbove(patterns, threshold) ==
    IF patterns = <<>> THEN <<>>
    ELSE (IF Head(patterns).val > threshold
          THEN <<[kind |-> "optimize_workflow",
                  pattern |-> Head(patterns).key,
                  count |-> Head(patterns).val]>>
          ELSE <<>>)
         \o FilterAbove(Tail(patterns), threshold)

\* The lookup SUGGESTION_THRESHOLDS["pattern_frequency_threshold"] is evaluated in
\* the loop body, once per pattern: it raises KeyError on the first pattern when
\* the map does not define the key.
_generate_journey_insights(patterns) ==
    IF patterns = <<>> THEN Return(<<>>)
    ELSE IF "pattern_frequency_threshold" \notin DOMAIN SUGGESTION_THRESHOLDS
         THEN Raise("KeyError")
         ELSE Return(FilterAbove(patterns, SUGGESTION_THRESHOLDS["pattern_frequency_threshold"]))

analyze_user_journeys(us) ==
    LET journey_patterns == JourneyPatterns(us)
        sorted_patterns == SortedByCountDescending(<<>>, journey_patterns)
        insights == _generate_journey_insights(FirstN(sorted_patterns, TopN))
    IN IF insights.raised # "none"
       THEN Raise(insights.raised)
       ELSE Return([total_patterns |-> Len(journey_patterns),
                    most_common_patterns |-> FirstN(sorted_patterns, TopN),
                    insights |-> insights.value])

(***************************************************************************)
(* analyze_error_patterns                                                  *)
(***************************************************************************)
\* A variant of the rules below whose first rule needs both conditions.
_assess_error_severity_Both(occurrences, affected_users) ==
    IF occurrences > 50 /\ affected_users > 10 THEN "critical"
    ELSE IF occurrences > 20 \/ affected_users > 5 THEN "high"
    ELSE IF occurrences > 5 THEN "medium"
    ELSE "low"

\* A variant of the rules below that tests the occurrence rule for medium first.
_assess_error_severity_MediumFirst(occurrences, affected_users) ==
    IF occurrences > 5 /\ occurrences <= 20 THEN "medium"
    ELSE IF occurrences > 50 \/ affected_users > 10 THEN "critical"
    ELSE IF occurrences > 20 \/ affected_users > 5 THEN "high"
    ELSE "low"

_assess_error_severity(occurrences, affected_users) ==
    IF occurrences > 50 \/ affected_users > 10 THEN "critical"
    ELSE IF occurrences > 20 \/ affected_users > 5 THEN "high"
    ELSE IF occurrences > 5 THEN "medium"
    ELSE "low"

_generate_error_insights(error_analysis) ==
    LET critical_errors ==
            KeysWhere(error_analysis,
                      {i \in 1..Len(error_analysis) :
                          error_analysis[i].val.severity \in {"critical", "high"}})
    IN IF critical_errors # <<>>
       THEN <<[kind |-> "immediate_attention", names |-> critical_errors]>>
       ELSE <<>>

\* set(e["user_id"] for e in occurrences)
AffectedUsers(occurrences) == {occurrences[i].user_id : i \in 1..Len(occurrences)}

Timestamps(occurrences) ==
    [i \in 1..Len(occurrences) |-> fromisoformat(occurrences[i].timestamp)]

SeqMax(s) == CHOOSE x \in {s[i] : i \in 1..Len(s)} : \A i \in 1..Len(s) : s[i] <= x

SeqMin(s) == CHOOSE x \in {s[i] : i \in 1..Len(s)} : \A i \in 1..Len(s) : s[i] >= x

\* A variant of the frequency below with days = time_span.days, the whole days of
\* the span.
Frequency_WholeDays(occurrences) ==
    IF Timestamps(occurrences) # <<>>
    THEN LET time_span == SeqMax(Timestamps(occurrences)) - SeqMin(Timestamps(occurrences))
         IN IF time_span \div 24 > 1
            THEN Divide(Len(occurrences), time_span \div 24)
            ELSE Divide(Len(occurrences), 1)
    ELSE Divide(0, 1)

\* A variant of the frequency below in which the span runs from the earliest
\* occurrence to the time of the analysis.
Frequency_UntilNow(occurrences) ==
    IF Timestamps(occurrences) # <<>>
    THEN LET time_span == now - SeqMin(Timestamps(occurrences))
         IN IF time_span > 24
            THEN Divide(24 * Len(occurrences), time_span)
            ELSE Divide(Len(occurrences), 1)
    ELSE Divide(0, 1)

\* len(occurrences) / max(days, 1) with days = time_span.total_seconds() / 86400;
\* the span is in hours here, so days = span / 24.
Frequency(occurrences) ==
    IF Timestamps(occurrences) # <<>>
    THEN LET time_span == SeqMax(Timestamps(occurrences)) - SeqMin(Timestamps(occurrences))
         IN IF time_span > 24
            THEN Divide(24 * Len(occurrences), time_span)
            ELSE Divide(Len(occurrences), 1)
    ELSE Divide(0, 1)

ErrorRecord(occurrences) ==
    [occurrences |-> Len(occurrences),
     affected_users |-> Cardinality(AffectedUsers(occurrences)),
     frequency_per_day |-> Frequency(occurrences),
     severity |-> _assess_error_severity(Len(occurrences),
                                         Cardinality(AffectedUsers(occurrences)))]

analyze_error_patterns(ep) ==
    LET error_analysis ==
            [i \in 1..Len(ep) |-> [key |-> ep[i].key, val |-> ErrorRecord(ep[i].val)]]
    IN Return([total_error_types |-> Len(error_analysis),
               errors |-> error_analysis,
               insights |-> _generate_error_insights(error_analysis)])

(***************************************************************************)
(* analyze_time_patterns                                                   *)
(***************************************************************************)
\* timestamp.hour
Hour(timestamp) == timestamp % 24

DayNames ==
    <<"Monday", "Tuesday", "Wednesday", "Thursday", "Friday", "Saturday", "Sunday">>

\* timestamp.strftime("%A"); the clock starts on a Monday.
WeekdayName(timestamp) == DayNames[((timestamp \div 24) % 7) + 1]

\* A variant of the maximum below that yields the last of the items of maximal
\* count.
MaxItem_Last(d) ==
    d[CHOOSE i \in 1..Len(d) :
        /\ \A j \in 1..Len(d) : d[j].val <= d[i].val
        /\ \A j \in (i + 1)..Len(d) : d[j].val < d[i].val]

\* max(d.items(), key=lambda x: x[1]): the first of the items of maximal count.
MaxItem(d) ==
    d[CHOOSE i \in 1..Len(d) :
        /\ \A j \in 1..Len(d) : d[j].val <= d[i].val
        /\ \A j \in 1..(i - 1) : d[j].val < d[i].val]

HourlyActivity(ev) ==
    CountInto(<<>>, [i \in 1..Len(ev) |-> Hour(fromisoformat(ev[i].timestamp))])

DailyActivity(ev) ==
    CountInto(<<>>, [i \in 1..Len(ev) |-> WeekdayName(fromisoformat(ev[i].timestamp))])

\* The dict analyze_time_patterns returns, with its three insight lines.
TimePatterns(hourly_activity, daily_activity, peak_hour, peak_day) ==
    [hourly_distribution |-> hourly_activity,
     daily_distribution |-> daily_activity,
     peak_hour |-> peak_hour.key,
     peak_day |-> peak_day.key,
     insights |-> <<[kind |-> "peak_hour", at |-> <<peak_hour.key>>, count |-> peak_hour.val],
                    [kind |-> "peak_day", at |-> <<peak_day.key>>, count |-> peak_day.val],
                    [kind |-> "maintenance", at |-> <<>>, count |-> 0]>>]

\* A variant of the analyzer below without the defaults for an empty
\* distribution: max() of no items raises ValueError.
analyze_time_patterns_NoDefault(ev) ==
    IF HourlyActivity(ev) = <<>> \/ DailyActivity(ev) = <<>>
    THEN Raise("ValueError")
    ELSE Return(TimePatterns(HourlyActivity(ev), DailyActivity(ev),
                             MaxItem(HourlyActivity(ev)), MaxItem(DailyActivity(ev))))

analyze_time_patterns(ev) ==
    LET hourly_activity == HourlyActivity(ev)
        daily_activity == DailyActivity(ev)
        peak_hour == IF hourly_activity # <<>> THEN MaxItem(hourly_activity)
                     ELSE [key |-> 0, val |-> 0]
        peak_day == IF daily_activity # <<>> THEN MaxItem(daily_activity)
                    ELSE [key |-> "", val |-> 0]
    IN Return(TimePatterns(hourly_activity, daily_activity, peak_hour, peak_day))

(***************************************************************************)
(* generate_comprehensive_report: the report's lines, as the values they   *)
(* are formatted from.                                                     *)
(***************************************************************************)
\* f"{rate:.1%}": the rate in tenths of a percent, rounded to the nearest; with
\* fewer than 16 users no rate lies halfway between two tenths.
Percent1(rate) == (2000 * rate.num + rate.den) \div (2 * rate.den)

FeatureLines(adoption) ==
    IF "features" \in DOMAIN adoption
    THEN [i \in 1..Len(adoption.features) |->
             [feature |-> adoption.features[i].key,
              total_uses |-> adoption.features[i].val.total_uses,
              unique_users |-> adoption.features[i].val.unique_users,
              adoption_rate |-> Percent1(adoption.features[i].val.adoption_rate),
              status |-> adoption.features[i].val.status]]
    ELSE <<>>

ErrorLines(errors) ==
    [i \in 1..Len(errors.errors) |->
        [error_type |-> errors.errors[i].key,
         occurrences |-> errors.errors[i].val.occurrences,
         affected_users |-> errors.errors[i].val.affected_users,
         severity |-> errors.errors[i].val.severity]]

generate_comprehensive_report(ev, us, fu, ep, generated) ==
    LET adoption == analyze_feature_adoption(us, fu)
        journeys == analyze_user_journeys(us)
        errors == analyze_error_patterns(ep)
        time_patterns == analyze_time_patterns(ev)
    IN IF journeys.raised # "none" THEN Raise(journeys.raised)
       ELSE Return([generated |-> isoformat(generated),
                    total_events |-> Len(ev),
                    unique_users |-> Len(us),
                    features |-> FeatureLines(adoption.value),
                    insights |-> IF "insights" \in DOMAIN adoption.value
                                 THEN adoption.value.insights ELSE <<>>,
                    total_patterns |-> journeys.value.total_patterns,
                    patterns |-> FirstN(journeys.value.most_common_patterns, 5),
                    total_error_types |-> errors.value.total_error_types,
                    errors |-> ErrorLines(errors.value),
                    time_insights |-> time_patterns.value.insights])

(***************************************************************************)
(* export_analysis                                                         *)
(***************************************************************************)
Digits == <<"0", "1", "2", "3", "4", "5", "6", "7", "8", "9">>

\* The decimal numeral json.dump writes for an int.
RECURSIVE IntToText(_)
IntToText(n) ==
    IF n < 10 THEN <<Digits[n + 1]>>
    ELSE IntToText(n \div 10) \o <<Digits[(n % 10) + 1]>>

\* json.dump writes the int keys of a dict as strings.
KeysToText(d) == [i \in 1..Len(d) |-> [key |-> IntToText(d[i].key), val |-> d[i].val]]

\* The dict export_analysis builds, as json.dump writes it: the members in
\* order, the summary's ints as numerals, the hours as string keys.
AnalysisData(ev, us, fu, ep, generated_at, journeys) ==
    <<[key |-> "generated_at", val |-> isoformat(generated_at)],
      [key |-> "summary",
       val |-> [total_events |-> IntToText(Len(ev)),
                unique_users |-> IntToText(Len(us)),
                features_tracked |-> IntToText(Len(fu))]],
      [key |-> "feature_adoption", val |-> analyze_feature_adoption(us, fu).value],
      [key |-> "user_journeys", val |-> journeys],
      [key |-> "error_patterns", val |-> analyze_error_patterns(ep).value],
      [key |-> "time_patterns",
       val |-> [analyze_time_patterns(ev).value EXCEPT
                   !.hourly_distribution = KeysToText(@)]]>>

\* The text json.dump writes: the opening brace, the members, the closing brace.
JsonText(members) ==
    <<[key |-> "{", val |-> NoValue]>> \o members \o <<[key |-> "}", val |-> NoValue]>>

\* open(filename, 'w') fails, or creates or truncates the file; the writes of
\* json.dump and the close then put the text into the file, or fail with a part
\* of the text written. io is what the file system does: kind "ok", kind "open"
\* for a failing open, or kind "write" for a failing write with the number of
\* chunks written before it.
export_analysis(ev, us, fu, ep, generated_at, io) ==
    LET journeys == analyze_user_journeys(us)
        text == JsonText(AnalysisData(ev, us, fu, ep, generated_at, journeys.value))
    IN IF journeys.raised # "none"
       THEN [outcome |-> Raise(journeys.raised), file |-> file]
       ELSE IF io.kind = "open"
       THEN [outcome |-> Raise("OSError"), file |-> file]
       ELSE IF io.kind = "ok"
       THEN [outcome |-> Return(NoValue), file |-> [exists |-> TRUE, text |-> text]]
       ELSE [outcome |-> Raise("OSError"),
             file |-> [exists |-> TRUE, text |-> SubSeq(text, 1, io.written)]]

(***************************************************************************)
(* The consumer: an analyzer call leaves the log alone and yields a result.*)
(***************************************************************************)
\* A variant of the call below in which the reader looks up
\* self.user_sessions[user_id] for the user of every error: the defaultdict
\* inserts an empty session for a user it does not hold.
Call_Inserting(op, outcome) ==
    LET Touch[i \in 0..Len(error_patterns)] ==
            IF i = 0 THEN user_sessions
            ELSE LET user_id == error_patterns[i].val[1].user_id
                 IN DictSet(Touch[i - 1], user_id, DefaultGet(Touch[i - 1], user_id, <<>>))
    IN /\ result' = [op |-> op, raised |-> outcome.raised, value |-> outcome.value]
       /\ user_sessions' = Touch[Len(error_patterns)]
       /\ UNCHANGED <<events, feature_usage, error_patterns, now, file, pending, downstream>>

Call(op, outcome) ==
    /\ result' = [op |-> op, raised |-> outcome.raised, value |-> outcome.value]
    /\ UNCHANGED <<events, user_sessions, feature_usage, error_patterns, now, file, pending,
                   downstream>>

AnalyzeFeatureAdoption ==
    Call("analyze_feature_adoption", analyze_feature_adoption(user_sessions, feature_usage))

AnalyzeUserJourneys ==
    Call("analyze_user_journeys", analyze_user_journeys(user_sessions))

AnalyzeErrorPatterns ==
    Call("analyze_error_patterns", analyze_error_patterns(error_patterns))

AnalyzeTimePatterns ==
    Call("analyze_time_patterns", analyze_time_patterns(events))

GenerateComprehensiveReport ==
    Call("generate_comprehensive_report",
         generate_comprehensive_report(events, user_sessions, feature_usage,
                                       error_patterns, now))

\* What the file system may do during an export; the text has 8 chunks.
IoOutcomes ==
    {[kind |-> "ok", written |-> 8], [kind |-> "open", written |-> 0]}
        \cup {[kind |-> "write", written |-> k] : k \in 0..7}

ExportAnalysis ==
    \E io \in IoOutcomes :
        LET export == export_analysis(events, user_sessions, feature_usage,
                                      error_patterns, now, io)
        IN /\ result' = [op |-> "export_analysis", raised |-> export.outcome.raised,
                         value |-> export.outcome.value, io |-> io]
           /\ file' = export.file
           /\ UNCHANGED <<events, user_sessions, feature_usage, error_patterns, now,
                          pending, downstream>>

(***************************************************************************)
(* A lookup in ai_config.SUGGESTION_THRESHOLDS: KeyError for a name the    *)
(* map does not define.                                                    *)
(***************************************************************************)
Threshold(name) ==
    IF name \in DOMAIN SUGGESTION_THRESHOLDS
    THEN Return(SUGGESTION_THRESHOLDS[name])
    ELSE Raise("KeyError")

(***************************************************************************)
(* AISuggestionEngine.analyze_usage_patterns. A suggestion is kept by the  *)
(* values its texts are formatted from; impact scores are in tenths.       *)
(***************************************************************************)
\* counts[item.get(field, default)] = counts.get(..., 0) + 1 over a list of
\* dicts: one entry for each value, in the order of the first item that has it,
\* with the number of items that have it.
CountBy(items, field, default) ==
    LET value == [i \in 1..Len(items) |-> DefaultGet(items[i], field, default)]
        firsts == {i \in 1..Len(items) : \A j \in 1..(i - 1) : value[j] # value[i]}
        Nth(n) == CHOOSE i \in firsts : Cardinality({j \in firsts : j < i}) = n - 1
    IN [n \in 1..Cardinality(firsts) |->
           [key |-> value[Nth(n)],
            val |-> Cardinality({j \in 1..Len(items) : value[j] = value[Nth(n)]})]]

\* The suggestions appended for the counts above the threshold, in dict order.
RECURSIVE SuggestionsAbove(_, _, _)
SuggestionsAbove(counts, threshold, suggestion) ==
    IF counts = <<>> THEN <<>>
    ELSE (IF Head(counts).val > threshold
          THEN <<[suggestion EXCEPT !.subject = Head(counts).key,
                                    !.value = Head(counts).val]>>
          ELSE <<>>)
         \o SuggestionsAbove(Tail(counts), threshold, suggestion)

\* The threshold is looked up in the loop body: with no count there is no
\* lookup, with a count and no such name the first iteration raises.
SuggestionsFrom(sugg, counts, name, suggestion) ==
    IF counts = <<>> THEN Return(sugg)
    ELSE IF Threshold(name).raised # "none" THEN Raise(Threshold(name).raised)
    ELSE Return(sugg \o SuggestionsAbove(counts, Threshold(name).value, suggestion))

_analyze_operation_frequency(sugg, operations) ==
    SuggestionsFrom(sugg, CountBy(operations, "type", "unknown"), "feature_usage_high",
                    [title |-> "Optimize operation", subject |-> "", value |-> 0,
                     category |-> "PERFORMANCE_OPTIMIZATION", priority |-> "HIGH",
                     impact_score |-> 80, implementation_complexity |-> "Medium"])

_analyze_user_feedback(sugg, feedback) ==
    SuggestionsFrom(sugg, CountBy(feedback, "category", "general"),
                    "user_feedback_threshold",
                    [title |-> "Address feedback", subject |-> "", value |-> 0,
                     category |-> "USER_EXPERIENCE", priority |-> "HIGH",
                     impact_score |-> 75, implementation_complexity |-> "Low to Medium"])

_analyze_performance_metrics(sugg, metrics) ==
    IF "response_times" \notin KeySet(metrics) THEN Return(sugg)
    ELSE LET avg_time == DefaultGet(DictGet(metrics, "response_times"), "average", 0)
             threshold == Threshold("response_time_warning")
         IN IF threshold.raised # "none" THEN Raise(threshold.raised)
            ELSE IF avg_time > threshold.value
            THEN Return(Append(sugg,
                     [title |-> "Reduce response time", subject |-> "", value |-> avg_time,
                      category |-> "PERFORMANCE_OPTIMIZATION", priority |-> "CRITICAL",
                      impact_score |-> 90,
                      implementation_complexity |-> "Medium to High"]))
            ELSE Return(sugg)

\* The three passes in order; a pass that raises ends the call, the suggestions
\* appended before it stay.
analyze_usage_patterns(sugg, usage_data) ==
    LET operations ==
            IF "operations" \in KeySet(usage_data)
            THEN _analyze_operation_frequency(sugg, DictGet(usage_data, "operations"))
            ELSE Return(sugg)
        feedback ==
            IF "feedback" \in KeySet(usage_data)
            THEN _analyze_user_feedback(operations.value, DictGet(usage_data, "feedback"))
            ELSE Return(operations.value)
        performance ==
            IF "performance" \in KeySet(usage_data)
            THEN _analyze_performance_metrics(feedback.value,
                                              DictGet(usage_data, "performance"))
            ELSE Return(feedback.value)
    IN IF operations.raised # "none"
       THEN [raised |-> operations.raised, suggestions |-> sugg]
       ELSE IF feedback.raised # "none"
       THEN [raised |-> feedback.raised, suggestions |-> operations.value]
       ELSE IF performance.raised # "none"
       THEN [raised |-> performance.raised, suggestions |-> feedback.value]
       ELSE [raised |-> "none", suggestions |-> performance.value]

(***************************************************************************)
(* RecommendationEngine. A recommendation is kept by the values its texts  *)
(* are formatted from, without its description and learning resources. A   *)
(* relevance score is a double; it is written here                         *)
(* as twice its hundredths, less one for the double just below them        *)
(* (0.8 is 160, 0.7999999999999999 is 159), which keeps the order of the   *)
(* doubles.                                                                *)
(***************************************************************************)
\* _initialize_feature_catalog, without the description texts
FEATURE_CATALOG ==
    <<[key |-> "workflow_automation",
       val |-> [difficulty |-> "beginner", time_savings |-> 120, category |-> "automation"]],
      [key |-> "smart_scheduling",
       val |-> [difficulty |-> "intermediate", time_savings |-> 60,
                category |-> "productivity"]],
      [key |-> "voice_commands",
       val |-> [difficulty |-> "beginner", time_savings |-> 30,
                category |-> "accessibility"]],
      [key |-> "batch_processing",
       val |-> [difficulty |-> "advanced", time_savings |-> 180, category |-> "automation"]],
      [key |-> "predictive_suggestions",
       val |-> [difficulty |-> "intermediate", time_savings |-> 45, category |-> "ai"]],
      [key |-> "integration_hub",
       val |-> [difficulty |-> "intermediate", time_savings |-> 90,
                category |-> "integration"]],
      [key |-> "analytics_dashboard",
       val |-> [difficulty |-> "beginner", time_savings |-> 15, category |-> "insights"]]>>

\* difficulty_levels.get(level, 1)
DifficultyLevel(level) ==
    CASE level = "beginner" -> 1
      [] level = "intermediate" -> 2
      [] level = "advanced" -> 3
      [] OTHER -> 1

_is_feature_appropriate(profile, feature_info) ==
    DifficultyLevel(feature_info.difficulty) <= DifficultyLevel(profile.experience_level) + 1

\* score += tenths / 10 on doubles: the sums of this code that are 0.8, 0.9 or
\* 1.0 in decimal come out as the double just below; the others, up to the cap,
\* as their decimal.
ScorePlus(score, tenths) ==
    LET decimal == score + (score % 2) + 20 * tenths
    IN IF decimal \in {160, 180, 200} THEN decimal - 1 ELSE decimal

\* The score after the loop over the use cases: 0.2 more for each that is the
\* feature's category.
RECURSIVE ScoreForUseCases(_, _, _)
ScoreForUseCases(score, use_cases, category) ==
    IF use_cases = <<>> THEN score
    ELSE ScoreForUseCases(IF Head(use_cases) = category THEN ScorePlus(score, 2) ELSE score,
                          Tail(use_cases), category)

_calculate_relevance(feature_info, profile) ==
    LET matched == ScoreForUseCases(100, profile.primary_use_cases, feature_info.category)
        levelled == IF feature_info.difficulty = profile.experience_level
                    THEN ScorePlus(matched, 2) ELSE matched
        score == IF feature_info.time_savings > 90 THEN ScorePlus(levelled, 1) ELSE levelled
    IN IF score < 200 THEN score ELSE 200

_create_recommendation(feature_name, feature_info, profile) ==
    [title |-> "Try", subject |-> feature_name,
     recommendation_type |-> "feature",
     relevance_score |-> _calculate_relevance(feature_info, profile),
     estimated_time_savings |-> feature_info.time_savings,
     difficulty |-> feature_info.difficulty]

\* The recommendations of the catalog loop: the features the user has not used
\* and that suit the user's level, in catalog order.
RECURSIVE UnusedFeatureRecommendations(_, _)
UnusedFeatureRecommendations(catalog, profile) ==
    IF catalog = <<>> THEN <<>>
    ELSE (IF /\ Head(catalog).key \notin KeySet(profile.feature_adoption)
             /\ _is_feature_appropriate(profile, Head(catalog).val)
          THEN <<_create_recommendation(Head(catalog).key, Head(catalog).val, profile)>>
          ELSE <<>>)
         \o UnusedFeatureRecommendations(Tail(catalog), profile)

_generate_advanced_recommendations(profile) ==
    (IF Len(profile.feature_adoption) > 5
     THEN <<[title |-> "Create Complex Multi-Step Workflows", subject |-> "",
             recommendation_type |-> "workflow", relevance_score |-> 170,
             estimated_time_savings |-> 150, difficulty |-> "advanced"]>>
     ELSE <<>>)
    \o
    (IF \E i \in 1..Len(profile.primary_use_cases) :
            profile.primary_use_cases[i] = "integration"
     THEN <<[title |-> "Leverage API Integrations", subject |-> "",
             recommendation_type |-> "feature", relevance_score |-> 160,
             estimated_time_savings |-> 120, difficulty |-> "advanced"]>>
     ELSE <<>>)

_generate_optimization_recommendations(profile) ==
    SuggestionsFrom(<<>>, profile.feature_adoption, "frequent_usage_threshold",
                    [title |-> "Optimize Your Usage", subject |-> "", value |-> 0,
                     recommendation_type |-> "optimization", relevance_score |-> 150,
                     estimated_time_savings |-> 30, difficulty |-> "intermediate"])

_generate_default_recommendations ==
    <<[title |-> "Get Started with Workflow Automation", subject |-> "",
       recommendation_type |-> "learning", relevance_score |-> 190,
       estimated_time_savings |-> 120, difficulty |-> "beginner"],
      [title |-> "Explore Voice Commands", subject |-> "",
       recommendation_type |-> "feature", relevance_score |-> 170,
       estimated_time_savings |-> 30, difficulty |-> "beginner"],
      [title |-> "Set Up Your First Automation", subject |-> "",
       recommendation_type |-> "workflow", relevance_score |-> 180,
       estimated_time_savings |-> 60, difficulty |-> "beginner"]>>

\* recommendations.sort(key=lambda r: r.relevance_score, reverse=True): stable.
RECURSIVE SortedByRelevance(_, _)
SortedByRelevance(done, recommendations) ==
    IF recommendations = <<>> THEN done
    ELSE LET r == Head(recommendations)
             ahead == {i \in 1..Len(done) : done[i].relevance_score >= r.relevance_score}
         IN SortedByRelevance(SubSeq(done, 1, Cardinality(ahead)) \o <<r>>
                                  \o SubSeq(done, Cardinality(ahead) + 1, Len(done)),
                              Tail(recommendations))

generate_recommendations(profiles, user_id) ==
    IF user_id \notin KeySet(profiles) THEN Return(_generate_default_recommendations)
    ELSE LET profile == DictGet(profiles, user_id)
             unused == UnusedFeatureRecommendations(FEATURE_CATALOG, profile)
             advanced == IF profile.experience_level = "advanced"
                         THEN _generate_advanced_recommendations(profile) ELSE <<>>
             optimization == _generate_optimization_recommendations(profile)
         IN IF optimization.raised # "none" THEN Raise(optimization.raised)
            ELSE Return(FirstN(SortedByRelevance(<<>>, unused \o advanced \o optimization.value),
                               TopN))

\* self.user_profiles[user_id] = UserProfile(...)
create_user_profile(profiles, user_id, experience_level, use_cases) ==
    DictSet(profiles, user_id,
            [user_id |-> user_id,
             experience_level |-> experience_level,
             primary_use_cases |-> use_cases,
             feature_adoption |-> <<>>,
             last_active |-> now])

update_feature_usage(profiles, user_id, feature) ==
    IF user_id \in KeySet(profiles)
    THEN LET profile == DictGet(profiles, user_id)
         IN DictSet(profiles, user_id,
                    [profile EXCEPT
                        !.feature_adoption =
                            DictSet(@, feature, DefaultGet(@, feature, 0) + 1),
                        !.last_active = now])
    ELSE profiles

(***************************************************************************)
(* The producer: calls in any order, the clock moving between them.        *)
(***************************************************************************)
\* The number of track_event and track_error calls made so far.
Calls == Len(events) + SumLen(error_patterns)

TrackEventFrom(types, users, steps) ==
    /\ Calls < MaxCalls
    /\ \E event_type \in types, user_id \in users, metadata \in Maps, d \in steps :
          /\ now + d <= MaxNow
          /\ now' = now + d
          /\ track_event(event_type, user_id, metadata)

TrackErrorFrom(types, users, steps) ==
    /\ Calls < MaxCalls
    /\ \E error_type \in types, user_id \in users, context \in Maps, d \in steps :
          /\ now + d <= MaxNow
          /\ now' = now + d
          /\ track_error(error_type, user_id, context)

\* Spec: every call reads the same clock hour.
TrackEvent == TrackEventFrom(EventTypes, UserIds, {0})

TrackError == TrackErrorFrom(ErrorTypes, UserIds, {0})

Next ==
    \/ TrackEvent
    \/ TrackError
    \/ AnalyzeFeatureAdoption
    \/ AnalyzeUserJourneys
    \/ AnalyzeErrorPatterns

Spec == Init /\ [][Next]_vars

\* SpecIngest: tracking calls only, with and without a user id.
IngestTrackEvent == TrackEventFrom(IngestEventTypes, IngestUserIds, {0})

IngestTrackError == TrackErrorFrom(ErrorTypes, IngestUserIds, {0})

NextIngest ==
    \/ IngestTrackEvent
    \/ IngestTrackError

SpecIngest == Init /\ [][NextIngest]_vars

\* SpecClock: the clock may move by an hour before a call.
ClockTrackEvent == TrackEventFrom(ClockEventTypes, ClockUserIds, ClockSteps)

ClockTrackError == TrackErrorFrom(ErrorTypes, ClockUserIds, ClockSteps)

NextClock ==
    \/ ClockTrackEvent
    \/ ClockTrackError
    \/ AnalyzeFeatureAdoption
    \/ AnalyzeUserJourneys
    \/ AnalyzeErrorPatterns

SpecClock == Init /\ [][NextClock]_vars

\* SpecJourney: events only, of the journey types.
JourneyTrackEvent == TrackEventFrom(JourneyEventTypes, JourneyUserIds, {0})

NextJourney ==
    \/ JourneyTrackEvent
    \/ AnalyzeUserJourneys

SpecJourney == Init /\ [][NextJourney]_vars

\* SpecSeverity: a burst of errors of one type. The first calls come from
\* distinct users, one after the other; once a user repeats, every later call
\* comes from that user. A burst so reaches every pair (occurrences,
\* affected_users) with affected_users <= occurrences within the bounds.
BurstOccurrences == DefaultGet(error_patterns, "timeout", <<>>)

BurstDistinct == Cardinality(AffectedUsers(BurstOccurrences))

BurstError ==
    /\ Len(BurstOccurrences) < MaxBurst
    /\ \E user_id \in {BurstUser(i) : i \in 1..MaxBurstUsers} :
          /\ \/ /\ BurstDistinct = Len(BurstOccurrences)
                /\ user_id = BurstUser(BurstDistinct + 1)
             \/ /\ BurstOccurrences # <<>>
                /\ user_id = BurstOccurrences[Len(BurstOccurrences)].user_id
          /\ now' = now
          /\ track_error("timeout", user_id, NoMap)

NextSeverity ==
    \/ BurstError
    \/ AnalyzeErrorPatterns

SpecSeverity == Init /\ [][NextSeverity]_vars

\* SpecFrequency: a burst of errors of one type from one user, over a moving
\* clock: the spans reach half a day, one day, and one day and an hour.
FrequencyError ==
    /\ Len(BurstOccurrences) < MaxFrequencyBurst
    /\ \E d \in TimeSteps :
          /\ now + d <= MaxTime
          /\ now' = now + d
          /\ track_error("timeout", "u1", NoMap)

NextFrequency ==
    \/ FrequencyError
    \/ AnalyzeErrorPatterns

SpecFrequency == Init /\ [][NextFrequency]_vars

\* SpecAdoption: users join one after the other with one event each, first the
\* users of feature x, then the users of feature y, then the users of no
\* feature; once all have joined, the first user repeats its feature. The
\* adoption rates so reach every fraction of at most MaxAdoptionUsers users, and
\* a feature's uses pass 100.
TypeOrder(event_type) ==
    CASE event_type = TypeFeatureX -> 1
      [] event_type = TypeFeatureY -> 2
      [] event_type = TypeA -> 3

AdoptionJoin ==
    /\ Len(events) < MaxAdoptionUsers
    /\ \E event_type \in AdoptionEventTypes :
          /\ \A i \in 1..Len(events) : TypeOrder(events[i].type) <= TypeOrder(event_type)
          /\ now' = now
          /\ track_event(event_type, BurstUser(Len(events) + 1), NoMap)

AdoptionRepeat ==
    /\ Len(events) >= MaxAdoptionUsers
    /\ Len(events) < MaxAdoptionUsers + MaxRepeats
    /\ events[1].type # TypeA
    /\ now' = now
    /\ track_event(events[1].type, BurstUser(1), NoMap)

NextAdoption ==
    \/ AdoptionJoin
    \/ AdoptionRepeat
    \/ AnalyzeFeatureAdoption

SpecAdoption == Init /\ [][NextAdoption]_vars

\* SpecTime: events of two users and errors of one type, the four analyzers, and
\* a clock that moves between the calls by half a day, or by half a day and an
\* hour, up to one day and one hour.
Tick ==
    /\ \E d \in TimeSteps \ {0} :
          /\ now + d <= MaxTime
          /\ now' = now + d
    /\ UNCHANGED <<events, user_sessions, feature_usage, error_patterns, result, file,
                   pending, downstream>>

TimeTrackEvent ==
    /\ Calls < MaxTimeCalls
    /\ \E user_id \in ClockUserIds :
          /\ now' = now
          /\ track_event(TypeA, user_id, NoMap)

TimeTrackError ==
    /\ Calls < MaxTimeCalls
    /\ now' = now
    /\ track_error("timeout", "u1", NoMap)

NextTime ==
    \/ Tick
    \/ TimeTrackEvent
    \/ TimeTrackError
    \/ AnalyzeFeatureAdoption
    \/ AnalyzeUserJourneys
    \/ AnalyzeErrorPatterns
    \/ AnalyzeTimePatterns

SpecTime == Init /\ [][NextTime]_vars

\* SpecExport: events of two types from two users, errors of one type, the
\* report and the export, under a file system that may fail.
ExportEventTypes == {TypeA, TypeFeatureX}

ExportTrackEvent ==
    /\ Calls < MaxExportCalls
    /\ \E event_type \in ExportEventTypes, user_id \in ClockUserIds :
          /\ now' = now
          /\ track_event(event_type, user_id, NoMap)

ExportTrackError ==
    /\ Calls < MaxExportCalls
    /\ now' = now
    /\ track_error("timeout", "u1", NoMap)

NextExport ==
    \/ ExportTrackEvent
    \/ ExportTrackError
    \/ GenerateComprehensiveReport
    \/ ExportAnalysis

SpecExport == Init /\ [][NextExport]_vars

\* SpecReaders: the tracking calls of SpecExport and all six readers.
NextReaders ==
    \/ ExportTrackEvent
    \/ ExportTrackError
    \/ AnalyzeFeatureAdoption
    \/ AnalyzeUserJourneys
    \/ AnalyzeErrorPatterns
    \/ AnalyzeTimePatterns
    \/ GenerateComprehensiveReport
    \/ ExportAnalysis

SpecReaders == Init /\ [][NextReaders]_vars

\* SpecInterleaved: one thread calls track_event, another the adoption analyzer
\* and the report, with no lock: the reader may run between the writer's
\* statements.
InterleavedTrackEvent ==
    /\ Len(events) < MaxInterleavedCalls
    /\ \E event_type \in ExportEventTypes, user_id \in ClockUserIds :
          track_event_events(event_type, user_id, NoMap)

NextInterleaved ==
    \/ InterleavedTrackEvent
    \/ track_event_user_sessions
    \/ track_event_feature_usage
    \/ AnalyzeFeatureAdoption
    \/ GenerateComprehensiveReport

SpecInterleaved == Init /\ [][NextInterleaved]_vars

\* SpecDownstream: the analyzer's journeys and the two downstream engines, each
\* fed with what it records before it is asked.
Operation(op_type) == <<[key |-> "type", val |-> op_type]>>

FeedbackItem(category) == <<[key |-> "category", val |-> category]>>

\* 101 operations of one type: more than feature_usage_high.
ManyOperations == [i \in 1..101 |-> Operation("scan")]

SlowResponses ==
    <<[key |-> "response_times", val |-> <<[key |-> "average", val |-> 1500]>>]>>

UsageData ==
    {<<>>,
     <<[key |-> "operations", val |-> ManyOperations]>>,
     <<[key |-> "operations", val |-> <<Operation("scan"), <<>>>>]>>,
     <<[key |-> "feedback", val |-> <<FeedbackItem("ui")>>]>>,
     <<[key |-> "operations", val |-> ManyOperations],
       [key |-> "feedback", val |-> <<FeedbackItem("ui"), <<>>>>]>>,
     <<[key |-> "feedback", val |-> <<>>], [key |-> "performance", val |-> SlowResponses]>>,
     <<[key |-> "performance", val |-> <<>>]>>}

ExperienceLevels == {"beginner", "advanced"}

UseCases == {<<>>, <<"integration">>, <<"automation", "automation">>}

UsedFeatures == {"smart_scheduling", "export"}

\* "u2" never gets a profile.
ProfileUserIds == {"u1"}

DownstreamTrackEvent ==
    /\ Len(events) < MaxDownstreamEvents
    /\ now' = now
    /\ track_event(TypeA, "u1", NoMap)

AnalyzeUsagePatterns ==
    /\ Len(suggestions) < MaxSuggestions
    /\ \E usage_data \in UsageData :
          LET outcome == analyze_usage_patterns(suggestions, usage_data)
          IN /\ usage_patterns' = usage_data
             /\ suggestions' = outcome.suggestions
             /\ result' = [op |-> "analyze_usage_patterns", raised |-> outcome.raised,
                           value |-> NoValue]
    /\ UNCHANGED <<log, now, file, pending, user_profiles>>

CreateUserProfile ==
    /\ \E user_id \in ProfileUserIds, experience_level \in ExperienceLevels,
          use_cases \in UseCases :
          /\ user_profiles' =
                 create_user_profile(user_profiles, user_id, experience_level, use_cases)
          /\ result' = [op |-> "create_user_profile", raised |-> "none",
                        value |-> DictGet(user_profiles', user_id)]
    /\ UNCHANGED <<log, now, file, pending, suggestions, usage_patterns>>

UpdateFeatureUsage ==
    /\ \E user_id \in ClockUserIds, feature \in UsedFeatures :
          /\ user_id \in KeySet(user_profiles) =>
                 SumVal(DictGet(user_profiles, user_id).feature_adoption) < MaxFeatureUpdates
          /\ user_profiles' = update_feature_usage(user_profiles, user_id, feature)
          /\ result' = [op |-> "update_feature_usage", raised |-> "none",
                        value |-> NoValue]
    /\ UNCHANGED <<log, now, file, pending, suggestions, usage_patterns>>

GenerateRecommendations ==
    /\ \E user_id \in ClockUserIds :
          LET outcome == generate_recommendations(user_profiles, user_id)
          IN result' = [op |-> "generate_recommendations", raised |-> outcome.raised,
                        value |-> outcome.value, user_id |-> user_id]
    /\ UNCHANGED <<log, now, file, pending, downstream>>

NextDownstream ==
    \/ DownstreamTrackEvent
    \/ AnalyzeUserJourneys
    \/ AnalyzeUsagePatterns
    \/ CreateUserProfile
    \/ UpdateFeatureUsage
    \/ GenerateRecommendations

SpecDownstream == Init /\ [][NextDownstream]_vars

(***************************************************************************)
(* What the log holds, read from the calls made and not from the indexes   *)
(* the analyzer keeps.                                                      *)
(***************************************************************************)
IsPrefix(s, t) == Len(s) <= Len(t) /\ SubSeq(t, 1, Len(s)) = s

TrackOps == {"track_event", "track_error"}

HasFeatures == result.raised = "none" /\ "features" \in DOMAIN result.value

\* The user ids of the events and of the error occurrences.
EventUserIds == {events[i].user_id : i \in 1..Len(events)}

ErrorUserIds ==
    UNION {AffectedUsers(error_patterns[i].val) : i \in 1..Len(error_patterns)}

\* The events of one type, and the users having one.
EventsOfType(t) == {i \in 1..Len(events) : events[i].type = t}

UsersOfType(t) == {events[i].user_id : i \in EventsOfType(t)}

\* The suffix S of a type "feature_" + S.
Suffix(t) == SubSeq(t, Len(FEATURE_PREFIX) + 1, Len(t))

LoggedFeatureSuffixes ==
    {Suffix(events[i].type) :
        i \in {k \in 1..Len(events) : StartsWith(events[k].type, FEATURE_PREFIX)}}

\* A user's session: the user's events in append order.
Session(u) ==
    LET Mine(e) == e.user_id = u
    IN SelectSeq(events, Mine)

LoggedTypes == {events[i].type : i \in 1..Len(events)}

\* The number of positions, over all sessions, where type a is followed by type b.
PairCount(a, b) ==
    Cardinality({<<u, i>> \in EventUserIds \X (1..Len(events)) :
        /\ i < Len(Session(u))
        /\ Session(u)[i].type = a
        /\ Session(u)[i + 1].type = b})

ObservedPairs == {p \in LoggedTypes \X LoggedTypes : PairCount(p[1], p[2]) > 0}

\* The first place of a pattern key in the iteration of users and events.
FirstSeen(key) ==
    LET all == AllPatterns(user_sessions)
    IN CHOOSE i \in 1..Len(all) : all[i] = key /\ \A j \in 1..(i - 1) : all[j] # key

(***************************************************************************)
(* C1. track_event and track_error with an empty user_id fail with a       *)
(* MalformedInputError and append nothing, and with a non-empty user_id    *)
(* never fail. The log starts empty, so if a call with an empty user_id    *)
(* appended nothing, no entry and no session key would carry one.          *)
(***************************************************************************)
C1_EmptyUserIdRejected ==
    /\ result.op \in TrackOps =>
          result.raised = (IF result.user_id = "" THEN "MalformedInputError" ELSE "none")
    /\ "" \notin EventUserIds
    /\ "" \notin KeySet(user_sessions)
    /\ "" \notin ErrorUserIds

(***************************************************************************)
(* C2. The log is empty at construction and append-only afterwards: in     *)
(* every step, whichever call makes it, the event list and each error      *)
(* type's occurrence list keep every entry they hold, unchanged and at its *)
(* position, and grow at the end only; no error type is dropped or moved.  *)
(***************************************************************************)
C2_Grows ==
    /\ IsPrefix(events, events')
    /\ Len(error_patterns) <= Len(error_patterns')
    /\ \A i \in 1..Len(error_patterns) :
          /\ error_patterns'[i].key = error_patterns[i].key
          /\ IsPrefix(error_patterns[i].val, error_patterns'[i].val)

C2_AppendOnly ==
    /\ events = <<>> /\ error_patterns = <<>>
    /\ [][C2_Grows]_vars

\* Two equal events, logged at the same hour, are both kept, next to an error
\* logged an hour later, and an analyzer has run since.
C2_Witness ==
    /\ Len(events) = 2
    /\ events[1] = events[2]
    /\ Len(error_patterns) = 1
    /\ error_patterns[1].val[1].timestamp # events[1].timestamp
    /\ result.op = "analyze_feature_adoption"

(***************************************************************************)
(* C3. Every feature record returned by analyze_feature_adoption has       *)
(* unique_users <= total_uses.                                             *)
(***************************************************************************)
C3_UniqueUsersAtMostTotalUses ==
    (result.op = "analyze_feature_adoption" /\ HasFeatures) =>
        \A i \in 1..Len(result.value.features) :
            result.value.features[i].val.unique_users
                <= result.value.features[i].val.total_uses

(***************************************************************************)
(* C4. Every adoption_rate reported by analyze_feature_adoption lies in    *)
(* [0, 1], and no rate is computed when no user is known: the call then    *)
(* returns the "no usage data" record, and a rate that is reported has a   *)
(* non-zero divisor.                                                       *)
(***************************************************************************)
C4_AdoptionRateInUnitInterval ==
    result.op = "analyze_feature_adoption" =>
        /\ result.raised = "none"
        /\ IF events = <<>>
           THEN /\ "error" \in DOMAIN result.value
                /\ "features" \notin DOMAIN result.value
           ELSE /\ "features" \in DOMAIN result.value
                /\ \A i \in 1..Len(result.value.features) :
                      LET rate == result.value.features[i].val.adoption_rate
                      IN /\ rate.den > 0
                         /\ 0 <= rate.num
                         /\ rate.num <= rate.den

\* A feature adopted by one of two users: a rate strictly inside the interval.
C4_Witness ==
    /\ result.op = "analyze_feature_adoption"
    /\ HasFeatures
    /\ \E i \in 1..Len(result.value.features) :
          LET rate == result.value.features[i].val.adoption_rate
          IN 0 < rate.num /\ rate.num < rate.den

(***************************************************************************)
(* C5. For every feature, adoption_rate = (distinct users who triggered    *)
(* the feature) / total_users, where total_users counts the distinct user  *)
(* ids of the events and of the error occurrences alike.                   *)
(***************************************************************************)
C5_TotalUsersCountsErrorUsers ==
    (result.op = "analyze_feature_adoption" /\ HasFeatures) =>
        \A i \in 1..Len(result.value.features) :
            LET rate == result.value.features[i].val.adoption_rate
                feature == result.value.features[i].key
            IN /\ rate.den # 0
               /\ rate.num * Cardinality(EventUserIds \cup ErrorUserIds)
                      = Cardinality(UsersUsingFeature(user_sessions, feature)) * rate.den

(***************************************************************************)
(* C6. For every event type "feature_" + S, track_event increments the     *)
(* counter keyed by exactly S, and no other type changes a counter; so     *)
(* analyze_feature_adoption reports for feature S the number of events of  *)
(* type "feature_" + S as total_uses and the number of distinct users      *)
(* having such an event as unique_users.                                   *)
(***************************************************************************)
C6_CounterKeyedBySuffix ==
    /\ KeySet(feature_usage) = LoggedFeatureSuffixes
    /\ \A S \in KeySet(feature_usage) :
          DictGet(feature_usage, S) = Cardinality(EventsOfType(FEATURE_PREFIX \o S))
    /\ (result.op = "analyze_feature_adoption" /\ HasFeatures) =>
          \A i \in 1..Len(result.value.features) :
              LET S == result.value.features[i].key
                  data == result.value.features[i].val
              IN /\ data.total_uses = Cardinality(EventsOfType(FEATURE_PREFIX \o S))
                 /\ data.unique_users = Cardinality(UsersOfType(FEATURE_PREFIX \o S))

(***************************************************************************)
(* C7. When some user has at least two events, analyze_user_journeys       *)
(* counts for each ordered pair (A, B) of event types exactly the number   *)
(* of positions at which a session has A followed by B; two different      *)
(* pairs never share a counter; and total_patterns, the number of          *)
(* counters, is the number of distinct ordered pairs observed.             *)
(***************************************************************************)
C7_PairsCountedSeparately ==
    (/\ result.op = "analyze_user_journeys"
     /\ \E u \in EventUserIds : Len(Session(u)) >= 2) =>
        LET journey_patterns == JourneyPatterns(user_sessions)
        IN /\ \A p \in LoggedTypes \X LoggedTypes :
                 DefaultGet(journey_patterns, PatternKey(p[1], p[2]), 0)
                     = PairCount(p[1], p[2])
           /\ Len(journey_patterns) = Cardinality(ObservedPairs)

(***************************************************************************)
(* C8. analyze_user_journeys returns most_common_patterns: at most 10      *)
(* entries, the highest counts of all patterns, in non-increasing order of *)
(* count, entries of equal count in the order their patterns were first    *)
(* observed.                                                               *)
(***************************************************************************)
C8_TopTenStableDescending ==
    result.op = "analyze_user_journeys" =>
        /\ result.raised = "none"
        /\ LET most == result.value.most_common_patterns
               journey_patterns == JourneyPatterns(user_sessions)
               Listed == {most[i] : i \in 1..Len(most)}
               All == {journey_patterns[i] : i \in 1..Len(journey_patterns)}
           IN /\ Len(most) = (IF Len(journey_patterns) < 10 THEN Len(journey_patterns) ELSE 10)
              /\ Cardinality(Listed) = Len(most)
              /\ Listed \subseteq All
              /\ \A x \in Listed, y \in All \ Listed : x.val >= y.val
              /\ \A i, j \in 1..Len(most) :
                    i < j => \/ most[i].val > most[j].val
                             \/ /\ most[i].val = most[j].val
                                /\ FirstSeen(most[i].key) < FirstSeen(most[j].key)

(***************************************************************************)
(* C9. analyze_user_journeys returns an insights list with one insight for *)
(* every pattern whose count exceeds the configured pattern-frequency      *)
(* threshold, and none for a pattern at or below it; with no pattern the   *)
(* list is empty.                                                          *)
(***************************************************************************)
C9_InsightsAboveThreshold ==
    result.op = "analyze_user_journeys" =>
        /\ result.raised = "none"
        /\ IF JourneyPatterns(user_sessions) = <<>>
           THEN result.value.insights = <<>>
           ELSE /\ "pattern_frequency_threshold" \in DOMAIN SUGGESTION_THRESHOLDS
                /\ LET most == result.value.most_common_patterns
                       insights == result.value.insights
                       Above == {i \in 1..Len(most) :
                                    most[i].val
                                        > SUGGESTION_THRESHOLDS["pattern_frequency_threshold"]}
                   IN /\ Len(insights) = Cardinality(Above)
                      /\ \A i \in Above :
                            \E k \in 1..Len(insights) :
                                /\ insights[k].pattern = most[i].key
                                /\ insights[k].count = most[i].val

(***************************************************************************)
(* C10. For every error type, analyze_error_patterns assigns the severity  *)
(* of the first matching rule: occurrences > 50 or affected_users > 10     *)
(* gives critical; occurrences > 20 or affected_users > 5 gives high;      *)
(* occurrences > 5 gives medium; otherwise low; occurrences being the      *)
(* number of track_error calls for the type and affected_users the number  *)
(* of distinct user ids among them.                                        *)
(***************************************************************************)
C10_SeverityByFirstMatchingRule ==
    result.op = "analyze_error_patterns" =>
        /\ result.raised = "none"
        /\ KeySet(result.value.errors) = KeySet(error_patterns)
        /\ \A i \in 1..Len(result.value.errors) :
              LET calls == DictGet(error_patterns, result.value.errors[i].key)
                  o == Len(calls)
                  u == Cardinality({calls[j].user_id : j \in 1..Len(calls)})
                  critical == o > 50 \/ u > 10
                  high == o > 20 \/ u > 5
                  medium == o > 5
              IN result.value.errors[i].val.severity =
                    CASE critical -> "critical"
                      [] ~critical /\ high -> "high"
                      [] ~critical /\ ~high /\ medium -> "medium"
                      [] OTHER -> "low"

\* Eleven users with one error each: critical by the user count alone.
C10_Witness ==
    /\ result.op = "analyze_error_patterns"
    /\ \E i \in 1..Len(result.value.errors) :
          /\ result.value.errors[i].val.severity = "critical"
          /\ result.value.errors[i].val.occurrences <= 20
          /\ result.value.errors[i].val.affected_users > 10

(***************************************************************************)
(* C11. Severity is monotonic: with low < medium < high < critical, for    *)
(* all o1 <= o2 and u1 <= u2, severity(o1, u1) <= severity(o2, u2); hence  *)
(* no track_error call lowers the severity an error type is reported with. *)
(***************************************************************************)
SeverityRank(severity) ==
    CASE severity = "low" -> 0
      [] severity = "medium" -> 1
      [] severity = "high" -> 2
      [] severity = "critical" -> 3

\* The severity analyze_error_patterns reports for the i-th error type of ep.
ReportedSeverity(ep, i) == analyze_error_patterns(ep).value.errors[i].val.severity

\* The rule at the burst's occurrence count against every smaller pair of counts.
C11_RuleMonotonic ==
    LET o2 == Len(BurstOccurrences)
    IN \A u2 \in 0..MaxBurstUsers, o1 \in 0..o2 :
          \A u1 \in 0..u2 :
              SeverityRank(_assess_error_severity(o1, u1))
                  <= SeverityRank(_assess_error_severity(o2, u2))

C11_NeverLowered ==
    \A i \in 1..Len(error_patterns) :
        SeverityRank(ReportedSeverity(error_patterns, i))
            <= SeverityRank(ReportedSeverity(error_patterns', i))

C11_SeverityMonotonic == []C11_RuleMonotonic /\ [][C11_NeverLowered]_vars

\* A burst from at most 5 users that has grown past 50 occurrences is reported
\* critical.
C11_Witness ==
    /\ result.op = "analyze_error_patterns"
    /\ \E i \in 1..Len(result.value.errors) :
          /\ result.value.errors[i].val.severity = "critical"
          /\ result.value.errors[i].val.occurrences > 50
          /\ result.value.errors[i].val.affected_users <= 5

(***************************************************************************)
(* C12. For every error type, frequency_per_day = occurrences /            *)
(* max(span_days, 1), span_days being the time from the earliest to the    *)
(* latest occurrence of the type in days: with all occurrences within one  *)
(* day the frequency is the occurrence count exactly, it never exceeds the *)
(* occurrence count, and the divisor is never zero.                        *)
(***************************************************************************)
\* The hour a logged entry was stamped with.
StampedHour(entry) == 24 * entry.timestamp.date + entry.timestamp.hour

\* Hours from the earliest to the latest of the occurrences.
SpanHours(calls) ==
    LET hours == {StampedHour(calls[j]) : j \in 1..Len(calls)}
    IN (CHOOSE h \in hours : \A g \in hours : g <= h)
           - (CHOOSE h \in hours : \A g \in hours : g >= h)

C12_FrequencyFlooredAtOneDay ==
    result.op = "analyze_error_patterns" =>
        /\ result.raised = "none"
        /\ \A i \in 1..Len(result.value.errors) :
              LET calls == DictGet(error_patterns, result.value.errors[i].key)
                  n == Len(calls)
                  f == result.value.errors[i].val.frequency_per_day
              IN /\ f.den > 0
                 /\ f.num <= n * f.den
                 /\ IF SpanHours(calls) <= 24
                    THEN f.num = n * f.den
                    ELSE f.num * SpanHours(calls) = 24 * n * f.den

\* Ten occurrences over 13 hours are reported with frequency 10.
C12_Witness ==
    /\ result.op = "analyze_error_patterns"
    /\ Len(result.value.errors) = 1
    /\ result.value.errors[1].val.occurrences = 10
    /\ SpanHours(DictGet(error_patterns, "timeout")) = 13
    /\ result.value.errors[1].val.frequency_per_day = [num |-> 10, den |-> 1]

(***************************************************************************)
(* C13. analyze_feature_adoption classifies each feature by its adoption   *)
(* rate, the users who triggered the feature over all users: rate >= 0.7   *)
(* gives "high_adoption", 0.3 <= rate < 0.7 gives "moderate_adoption",     *)
(* rate < 0.3 gives "low_adoption".                                        *)
(***************************************************************************)
\* The users who logged an event of the feature, and all users of the log.
Adopters(feature) == Cardinality(UsersOfType(FEATURE_PREFIX \o feature))

AllUsers == Cardinality(EventUserIds)

C13_StatusTiers ==
    (result.op = "analyze_feature_adoption" /\ HasFeatures) =>
        \A i \in 1..Len(result.value.features) :
            LET feature == result.value.features[i].key
                status == result.value.features[i].val.status
            IN /\ (10 * Adopters(feature) >= 7 * AllUsers) <=> (status = "high_adoption")
               /\ (/\ 10 * Adopters(feature) >= 3 * AllUsers
                   /\ 10 * Adopters(feature) < 7 * AllUsers) <=> (status = "moderate_adoption")
               /\ (10 * Adopters(feature) < 3 * AllUsers) <=> (status = "low_adoption")

\* Two of three users adopted feature x: moderate adoption.
C13_Witness ==
    /\ result.op = "analyze_feature_adoption"
    /\ HasFeatures
    /\ AllUsers = 3
    /\ Adopters(<<"x">>) = 2
    /\ \E i \in 1..Len(result.value.features) :
          /\ result.value.features[i].key = <<"x">>
          /\ result.value.features[i].val.status = "moderate_adoption"

(***************************************************************************)
(* C14. On an empty log each of the four analyzers returns its no-data     *)
(* result without raising, and analyze_feature_adoption returns its        *)
(* explicit no-data result whenever no user has an event, errors tracked   *)
(* or not.                                                                 *)
(***************************************************************************)
C14_NoDataResults ==
    /\ (result.op = "analyze_feature_adoption" /\ events = <<>>) =>
          /\ result.raised = "none"
          /\ result.value = [error |-> "No usage data available"]
    /\ (result.op = "analyze_user_journeys" /\ Calls = 0) =>
          /\ result.raised = "none"
          /\ result.value = [total_patterns |-> 0,
                             most_common_patterns |-> <<>>,
                             insights |-> <<>>]
    /\ (result.op = "analyze_error_patterns" /\ Calls = 0) =>
          /\ result.raised = "none"
          /\ result.value = [total_error_types |-> 0, errors |-> <<>>, insights |-> <<>>]
    /\ (result.op = "analyze_time_patterns" /\ Calls = 0) =>
          /\ result.raised = "none"
          /\ result.value.hourly_distribution = <<>>
          /\ result.value.daily_distribution = <<>>
          /\ result.value.peak_hour = 0
          /\ result.value.peak_day = ""
          /\ Len(result.value.insights) = 3

\* The time analyzer has run on the empty log.
C14_Witness ==
    /\ Calls = 0
    /\ result.op = "analyze_time_patterns"
    /\ result.raised = "none"

(***************************************************************************)
(* C15. analyze_time_patterns buckets every event, and no error            *)
(* occurrence, by hour of day and, independently, by weekday name: each    *)
(* bucket holds the number of events stamped with its hour or weekday, so  *)
(* each distribution sums to the number of events. peak_hour and peak_day  *)
(* are buckets of maximal count, and of the buckets of maximal count the   *)
(* one whose first event comes earliest in the append sequence.            *)
(***************************************************************************)
\* The events stamped with an hour of day, or with a weekday, by their place in
\* the append sequence.
EventsAtHour(hour) == {i \in 1..Len(events) : StampedHour(events[i]) % 24 = hour}

EventsOnDay(name) ==
    {i \in 1..Len(events) : DayNames[(events[i].timestamp.date % 7) + 1] = name}

LoggedHours == {StampedHour(events[i]) % 24 : i \in 1..Len(events)}

LoggedDays == {DayNames[(events[i].timestamp.date % 7) + 1] : i \in 1..Len(events)}

First(places) == CHOOSE i \in places : \A j \in places : i <= j

\* The places of the events of each logged hour, and of each logged weekday.
HourPlaces == [hour \in LoggedHours |-> EventsAtHour(hour)]

DayPlaces == [name \in LoggedDays |-> EventsOnDay(name)]

\* dist has one bucket for each key of places, holding the number of the key's
\* places.
Buckets(dist, places) ==
    /\ KeySet(dist) = DOMAIN places
    /\ Len(dist) = Cardinality(DOMAIN places)
    /\ \A k \in 1..Len(dist) : dist[k].val = Cardinality(places[dist[k].key])

\* peak is a key of maximal count, the earliest first seen among them.
Peak(peak, places) ==
    /\ peak \in DOMAIN places
    /\ \A other \in DOMAIN places \ {peak} :
          \/ Cardinality(places[other]) < Cardinality(places[peak])
          \/ /\ Cardinality(places[other]) = Cardinality(places[peak])
             /\ First(places[peak]) < First(places[other])

C15_PeaksByFirstMaximum ==
    (result.op = "analyze_time_patterns" /\ events # <<>>) =>
        /\ result.raised = "none"
        /\ Buckets(result.value.hourly_distribution, HourPlaces)
        /\ Buckets(result.value.daily_distribution, DayPlaces)
        /\ Peak(result.value.peak_hour, HourPlaces)
        /\ Peak(result.value.peak_day, DayPlaces)

\* Hours 13 and 1 tie, and the peak is hour 13, first seen: neither the smaller
\* key nor the later one; an error is logged as well.
C15_Witness ==
    /\ result.op = "analyze_time_patterns"
    /\ Cardinality(EventsAtHour(13)) = Cardinality(EventsAtHour(1))
    /\ Cardinality(EventsAtHour(13)) > 0
    /\ error_patterns # <<>>
    /\ result.value.peak_hour = 13

(***************************************************************************)
(* C16. Idempotence: calling any of the four analyzers twice with no       *)
(* track_event or track_error call in between, whatever time passes,       *)
(* yields the same outcome: the same result, or for analyze_user_journeys  *)
(* on a log with a pattern the same KeyError (C9). An analyzer call leaves *)
(* the log as it was.                                                      *)
(***************************************************************************)
AnalyzerOps ==
    {"analyze_feature_adoption", "analyze_user_journeys",
     "analyze_error_patterns", "analyze_time_patterns"}

\* What a call of the analyzer would yield in the current state.
Outcome(op) ==
    CASE op = "analyze_feature_adoption" -> analyze_feature_adoption(user_sessions, feature_usage)
      [] op = "analyze_user_journeys" -> analyze_user_journeys(user_sessions)
      [] op = "analyze_error_patterns" -> analyze_error_patterns(error_patterns)
      [] op = "analyze_time_patterns" -> analyze_time_patterns(events)

\* As long as nothing is tracked, a call yields what the last call yielded.
C16_NextCallYieldsTheSame ==
    result.op \in AnalyzerOps =>
        /\ result.raised = Outcome(result.op).raised
        /\ result.value = Outcome(result.op).value

\* A step from one call of an analyzer to the next call of the same analyzer.
C16_SecondCallSame ==
    (result.op \in AnalyzerOps /\ result'.op = result.op) =>
        /\ result' = result
        /\ UNCHANGED <<events, user_sessions, feature_usage, error_patterns>>

C16_Idempotent == []C16_NextCallYieldsTheSame /\ [][C16_SecondCallSame]_vars

\* An error analysis of a log with events and errors, more than a day after the
\* last tracking call.
C16_Witness ==
    /\ result.op = "analyze_error_patterns"
    /\ events # <<>>
    /\ error_patterns # <<>>
    /\ \A i \in 1..Len(events) : now > StampedHour(events[i]) + 24
    /\ \A i \in 1..Len(BurstOccurrences) : now > StampedHour(BurstOccurrences[i]) + 24

(***************************************************************************)
(* C17. export_analysis fails on I/O failures of the write path only: for  *)
(* every log reachable by track_event and track_error calls, when the file *)
(* system does not fail, export_analysis completes without raising, and so *)
(* does generate_comprehensive_report.                                     *)
(***************************************************************************)
C17_OnlyIoFailures ==
    /\ result.op = "generate_comprehensive_report" => result.raised = "none"
    /\ (result.op = "export_analysis" /\ result.io.kind = "ok") => result.raised = "none"

(***************************************************************************)
(* C18. Round trip: after any sequence of tracking calls, an export whose  *)
(* writes succeed leaves a snapshot with the keys generated_at, summary,   *)
(* feature_adoption, user_journeys, error_patterns and time_patterns, and  *)
(* parsing it gives summary.total_events, summary.unique_users and         *)
(* summary.features_tracked equal to the engine's number of events, of     *)
(* users and of tracked features at the time of the export.                *)
(***************************************************************************)
\* The int a decimal numeral denotes.
RECURSIVE TextToInt(_)
TextToInt(s) ==
    IF s = <<>> THEN 0
    ELSE 10 * TextToInt(SubSeq(s, 1, Len(s) - 1))
            + (CHOOSE d \in 0..9 : Digits[d + 1] = s[Len(s)])

\* json.load of a text: the members between the braces, the summary's numerals
\* read as ints; a text that does not end with its closing brace is no document.
json_load(text) ==
    IF /\ Len(text) >= 2
       /\ text[1].key = "{"
       /\ text[Len(text)].key = "}"
    THEN LET members == SubSeq(text, 2, Len(text) - 1)
         IN Return([i \in 1..Len(members) |->
                IF members[i].key = "summary"
                THEN [key |-> "summary",
                      val |-> [total_events |-> TextToInt(members[i].val.total_events),
                               unique_users |-> TextToInt(members[i].val.unique_users),
                               features_tracked |->
                                   TextToInt(members[i].val.features_tracked)]]
                ELSE members[i]])
    ELSE Raise("JSONDecodeError")

SnapshotKeys ==
    {"generated_at", "summary", "feature_adoption", "user_journeys",
     "error_patterns", "time_patterns"}

C18_SummaryRoundTrip ==
    (result.op = "export_analysis" /\ result.io.kind = "ok") =>
        /\ result.raised = "none"
        /\ file.exists
        /\ json_load(file.text).raised = "none"
        /\ LET snapshot == json_load(file.text).value
           IN /\ KeySet(snapshot) = SnapshotKeys
              /\ Len(snapshot) = Cardinality(SnapshotKeys)
              /\ DictGet(snapshot, "summary").total_events = Len(events)
              /\ DictGet(snapshot, "summary").unique_users = Len(user_sessions)
              /\ DictGet(snapshot, "summary").features_tracked = Len(feature_usage)

(***************************************************************************)
(* C19. An I/O failure during export_analysis is propagated to the caller, *)
(* and no partial snapshot is left readable: at every point the target     *)
(* file is absent or holds a complete snapshot (the code writes no marker  *)
(* of an incomplete file).                                                 *)
(***************************************************************************)
C19_NoPartialSnapshot ==
    /\ (result.op = "export_analysis" /\ result.io.kind # "ok") => result.raised # "none"
    /\ file.exists => json_load(file.text).raised = "none"

(***************************************************************************)
(* C20. The insights of analyze_feature_adoption list as a discoverability *)
(* risk exactly the features with adoption rate < 0.3, which are the       *)
(* features of status "low_adoption", and as high-value candidates exactly *)
(* the features with adoption rate > 0.7 and total_uses > 100; there is    *)
(* one insight for each of the two lists that is not empty, and none       *)
(* otherwise.                                                              *)
(***************************************************************************)
\* The names an insight of the kind lists; none when there is no such insight.
ListedAs(insights, kind) ==
    UNION {{insights[k].names[n] : n \in 1..Len(insights[k].names)} :
              k \in {j \in 1..Len(insights) : insights[j].kind = kind}}

C20_AdoptionInsights ==
    (result.op = "analyze_feature_adoption" /\ HasFeatures) =>
        LET features == result.value.features
            insights == result.value.insights
            Names == KeySet(features)
            Low == {f \in Names : 10 * Adopters(f) < 3 * AllUsers}
            High == {f \in Names :
                        /\ 10 * Adopters(f) > 7 * AllUsers
                        /\ Cardinality(EventsOfType(FEATURE_PREFIX \o f)) > 100}
        IN /\ Low = {f \in Names : DictGet(features, f).status = "low_adoption"}
           /\ ListedAs(insights, "low_adoption") = Low
           /\ ListedAs(insights, "high_value") = High
           /\ Len(insights) = (IF Low # {} THEN 1 ELSE 0) + (IF High # {} THEN 1 ELSE 0)
           /\ \A k \in 1..Len(insights) :
                 /\ insights[k].kind \in {"low_adoption", "high_value"}
                 /\ Len(insights[k].names)
                        = Cardinality(ListedAs(insights, insights[k].kind))

\* Feature x, used by 8 of 10 users and 108 times, is a high-value candidate and
\* feature y, used by 2 of 10, a discoverability risk.
C20_Witness ==
    /\ result.op = "analyze_feature_adoption"
    /\ HasFeatures
    /\ AllUsers = 10
    /\ Adopters(<<"x">>) = 8
    /\ Adopters(<<"y">>) = 2
    /\ Cardinality(EventsOfType(TypeFeatureX)) = 108
    /\ ListedAs(result.value.insights, "high_value") = {<<"x">>}
    /\ ListedAs(result.value.insights, "low_adoption") = {<<"y">>}

(***************************************************************************)
(* C21. After every call the per-user session index agrees with the event  *)
(* list: for every user id u, user_sessions[u] is the subsequence of the   *)
(* events of u in append order; the session keys are the user ids having   *)
(* an event, each once; the session lengths sum to the number of events.   *)
(***************************************************************************)
C21_SessionsAgreeWithEvents ==
    /\ KeySet(user_sessions) = EventUserIds
    /\ Len(user_sessions) = Cardinality(EventUserIds)
    /\ \A u \in KeySet(user_sessions) : DictGet(user_sessions, u) = Session(u)
    /\ SumLen(user_sessions) = Len(events)

\* Three events of two users, interleaved: the first user's session skips the
\* second event.
C21_Witness ==
    /\ Len(events) = 3
    /\ events[1].user_id = "u1"
    /\ events[2].user_id = "u2"
    /\ events[3].user_id = "u1"
    /\ events[1].type # events[3].type
    /\ DictGet(user_sessions, "u1") = <<events[1], events[3]>>

(***************************************************************************)
(* C22. track_event is not atomic for a reader that runs between its       *)
(* statements: such a reader can see unique_users > total_uses for a       *)
(* feature, or a total_events that counts an event whose user is not yet   *)
(* among the unique users. When the calls are serialized, that is whenever *)
(* no track_event is in progress, the event list, the sessions and the     *)
(* feature counters hold the same events and no reader has seen either.    *)
(***************************************************************************)
\* The three structures hold the same events.
LogConsistent ==
    /\ SumLen(user_sessions) = Len(events)
    /\ KeySet(user_sessions) = EventUserIds
    /\ SumVal(feature_usage)
           = Cardinality({i \in 1..Len(events) : StartsWith(events[i].type, FEATURE_PREFIX)})

\* What the last reader saw is what a consistent log shows.
ObservedConsistent ==
    /\ (result.op = "analyze_feature_adoption" /\ HasFeatures) =>
          \A i \in 1..Len(result.value.features) :
              result.value.features[i].val.unique_users
                  <= result.value.features[i].val.total_uses
    /\ (result.op = "generate_comprehensive_report" /\ result.raised = "none") =>
          /\ result.value.total_events = Len(events)
          /\ result.value.unique_users = Cardinality(EventUserIds)

C22_SerializedConsistent == pending = Idle => (LogConsistent /\ ObservedConsistent)

\* A reader between the session append and the counter increment of the second
\* user's first use of a feature: two unique users, one use.
C22_Witness ==
    /\ pending.pc = "feature_usage"
    /\ result.op = "analyze_feature_adoption"
    /\ HasFeatures
    /\ \E i \in 1..Len(result.value.features) :
          /\ result.value.features[i].val.unique_users = 2
          /\ result.value.features[i].val.total_uses = 1

\* A reader between the append to the event list and the session append: the
\* report counts an event and no user.
C22_SummaryAhead ==
    /\ pending.pc = "user_sessions"
    /\ result.op = "generate_comprehensive_report"
    /\ result.raised = "none"
    /\ result.value.total_events = 1
    /\ result.value.unique_users = 0

(***************************************************************************)
(* C23. The four analyzers, generate_comprehensive_report and              *)
(* export_analysis are read-only on the log: each leaves events,           *)
(* user_sessions with its keys, feature_usage and error_patterns as they   *)
(* were, and keeps no state between calls: what a call yields is what the  *)
(* first call on the same log yields.                                      *)
(***************************************************************************)
ReaderOps == AnalyzerOps \cup {"generate_comprehensive_report", "export_analysis"}

\* What a call of the reader yields on the current log, with no call before it.
FirstOutcome ==
    IF result.op \in AnalyzerOps THEN Outcome(result.op)
    ELSE IF result.op = "generate_comprehensive_report"
    THEN generate_comprehensive_report(events, user_sessions, feature_usage,
                                       error_patterns, now)
    ELSE export_analysis(events, user_sessions, feature_usage, error_patterns, now,
                         result.io).outcome

C23_LogUnchanged ==
    result'.op \in ReaderOps =>
        /\ events' = events
        /\ user_sessions' = user_sessions
        /\ feature_usage' = feature_usage
        /\ error_patterns' = error_patterns

C23_NoStateKept ==
    result.op \in ReaderOps =>
        /\ result.raised = FirstOutcome.raised
        /\ result.value = FirstOutcome.value

C23_ReadOnly == []C23_NoStateKept /\ [][C23_LogUnchanged]_vars

\* A report made after an export, on a log with an event and an error of a user
\* without events: the session keys are the event's user alone.
C23_Witness ==
    /\ result.op = "generate_comprehensive_report"
    /\ file.exists
    /\ events # <<>>
    /\ error_patterns # <<>>
    /\ KeySet(user_sessions) = {"u2"}
    /\ ErrorUserIds = {"u1"}

(***************************************************************************)
(* C24. Every threshold name the analyzer and the two downstream engines   *)
(* look up is defined in SUGGESTION_THRESHOLDS: no call of                 *)
(* analyze_user_journeys, analyze_usage_patterns or                        *)
(* generate_recommendations fails with a KeyError, whatever events,        *)
(* feedback items or feature usages were recorded before it.               *)
(***************************************************************************)
ThresholdReaders ==
    {"analyze_user_journeys", "analyze_usage_patterns", "generate_recommendations"}

C24_NoMissingThreshold == result.op \in ThresholdReaders => result.raised # "KeyError"

====
